---- MODULE Spec2Model ----
(***************************************************************************)
(* Model of keymanager.py: the two command handlers set_fee_recipients and *)
(* import_keystores, the shared request helper, and the keymanager server  *)
(* the requests are sent to.  Strings are sequences of one-character       *)
(* strings so that str.lower() and str.startswith("0x") are computed.      *)
(***************************************************************************)
EXTENDS Integers, Sequences, FiniteSets, TLC

\* ---- bounds of the model -------------------------------------------------
MaxEntries == 2      \* entries in the fee-recipient file
MaxFiles == 3        \* keystore files on the command line
MaxRuns == 2         \* invocations of set-fee-recipients with the same file

\* ---- strings --------------------------------------------------------------
\* characters that change under str.lower()
LowerChar(c) ==
    CASE c = "A" -> "a"
      [] c = "B" -> "b"
      [] c = "C" -> "c"
      [] c = "D" -> "d"
      [] c = "X" -> "x"
      [] OTHER -> c

\* str.lower()
Lower(s) == [k \in 1..Len(s) |-> LowerChar(s[k])]

\* str.startswith("0x")
StartsWith0x(s) == Len(s) >= 2 /\ s[1] = "0" /\ s[2] = "x"

\* the pubkey taken as it is in the file
NormalizePubkey_AsIs(pubkey) == pubkey

\* pubkey if pubkey.startswith("0x") else "0x" + pubkey
NormalizePubkey(pubkey) == IF StartsWith0x(pubkey) THEN pubkey ELSE <<"0", "x">> \o pubkey

\* ---- inputs ---------------------------------------------------------------
\* validating_pubkey values a fee-recipient file may hold
FilePubkeys == { <<"0","x","a">>, <<"0","x","A">>, <<"0","x","b">> }
\* ethaddress values a fee-recipient file may hold
FileAddresses == { <<"0","x","c">>, <<"0","x","C">>, <<"0","x","d">> }
\* pubkey values a keystore file may hold
KeystorePubkeys == { <<"0","x","a">>, <<"a">>, <<"0","x","A">>, <<"0","x","b">>, <<"b">> }
\* validating_pubkey values the server may report as managed
ServerPubkeys == { <<"0","x","a">>, <<"0","x","A">>, <<"0","x","b">> }
\* the validators the server keeps a fee recipient for, and the values it may hold
ValidatorIds == { <<"0","x","a">>, <<"0","x","b">> }
ServerAddresses == { <<"0","x","C">>, <<"0","x","d">> }

FeeRecipientEntries == [validating_pubkey : FilePubkeys, ethaddress : FileAddresses]
KeystoreFiles == [pubkey : KeystorePubkeys]

SeqsUpTo(S, lo, hi) == UNION { [1..n -> S] : n \in lo..hi }

VARIABLES
    command,            \* args.func: "set-fee-recipients" or "import-keystores"
    args_file,          \* parsed content of args.file
    args_keystores,     \* parsed content of the files in args.keystores
    serverKeys,         \* server: validating_pubkey values of GET /eth/v1/keystores
    serverFee,          \* server: fee recipient of each validator
    serverFee0,         \* server: fee recipients when the current invocation started
    pc,                 \* position of the handler
    i,                  \* index of the entry or file of the current loop iteration
    managed_keystores,  \* local variable managed_keystores
    old_ethaddress,     \* local variable old_ethaddress
    log,                \* requests issued by the current invocation, in order
    out,                \* messages printed by the current invocation, in order
    exit_code,          \* value returned by the handler (meaningful when pc = "returned")
    run                 \* number of the current invocation

vars == << command, args_file, args_keystores, serverKeys, serverFee, serverFee0,
           pc, i, managed_keystores, old_ethaddress, log, out, exit_code, run >>

\* ---- request helper -------------------------------------------------------
KeystoresResource == [path |-> "/eth/v1/keystores", pubkey |-> <<>>]
FeeRecipientResource(pubkey) == [path |-> "/eth/v1/validator/{pubkey}/feerecipient", pubkey |-> pubkey]

\* request(resource, data): the request sent; a body makes it a POST.
\* ok is the outcome of urlopen, resp the ethaddress of the response to a
\* fee-recipient GET, idx the loop iteration that issued the request.
request(resource, data, ok, resp, idx) ==
    [ method |-> IF data /= <<>> THEN "POST" ELSE "GET",
      resource |-> resource,
      data |-> data,
      ok |-> ok,
      resp |-> resp,
      idx |-> idx ]

\* {validator_data["validating_pubkey"].lower() for validator_data in resp_obj["data"]}
ManagedKeystores(keys) == { Lower(k) : k \in keys }

\* the entries lower-cased but taken in reverse file order
fee_recipient_data_Reversed ==
    [k \in 1..Len(args_file) |->
        [validating_pubkey |-> Lower(args_file[Len(args_file) + 1 - k].validating_pubkey),
         ethaddress |-> Lower(args_file[Len(args_file) + 1 - k].ethaddress)]]

\* [{"validating_pubkey": d[..].lower(), "ethaddress": d[..].lower()} for d in ...]
fee_recipient_data ==
    [k \in 1..Len(args_file) |->
        [validating_pubkey |-> Lower(args_file[k].validating_pubkey),
         ethaddress |-> Lower(args_file[k].ethaddress)]]

\* ---- initial states -------------------------------------------------------
InitCommon ==
    /\ serverKeys \in SUBSET ServerPubkeys
    /\ pc = "list"
    /\ i = 0
    /\ managed_keystores = {}
    /\ old_ethaddress = <<>>
    /\ log = <<>>
    /\ out = <<>>
    /\ exit_code = 0
    /\ run = 1

InitFee ==
    /\ command = "set-fee-recipients"
    /\ args_file \in SeqsUpTo(FeeRecipientEntries, 0, MaxEntries)
    /\ args_keystores = <<>>
    /\ serverFee \in [ValidatorIds -> ServerAddresses]
    /\ serverFee0 = serverFee
    /\ InitCommon

InitImport ==
    /\ command = "import-keystores"
    /\ args_file = <<>>
    /\ args_keystores \in SeqsUpTo(KeystoreFiles, 1, MaxFiles)
    /\ serverFee = [v \in ValidatorIds |-> <<"0","x","d">>]
    /\ serverFee0 = serverFee
    /\ InitCommon

\* ---- set_fee_recipients ---------------------------------------------------
\* validation that looks at the first entry only
FirstUnmanaged_FirstOnly(data, managed) ==
    IF Len(data) >= 1 /\ data[1].validating_pubkey \notin managed THEN 1 ELSE 0

\* the first entry, in file order, whose pubkey is not managed (0 if none)
FirstUnmanaged(data, managed) ==
    IF \E k \in 1..Len(data) : data[k].validating_pubkey \notin managed
    THEN CHOOSE k \in 1..Len(data) :
            /\ data[k].validating_pubkey \notin managed
            /\ \A j \in 1..(k-1) : data[j].validating_pubkey \in managed
    ELSE 0

\* the address of the response taken without lower-casing
OldEthaddress_NoLower(ethaddress) == ethaddress

\* resp_obj["data"]["ethaddress"].lower()
OldEthaddress(ethaddress) == Lower(ethaddress)

\* comparison with the sense inverted
InSync_Inverted(old, new) == old /= new

\* comparison that never finds the addresses equal
InSync_Never(old, new) == FALSE

\* old_ethaddress == new_ethaddress
InSync(old, new) == old = new

\* json.dumps({"ethaddress": new_ethaddress}).encode()
req_data(d) == d.ethaddress

\* update loop that leaves before the last entry
FeeLoopTo_OffByOne(n, msgs) ==
    IF n < Len(args_file)
    THEN /\ pc' = "read"
         /\ i' = n
         /\ out' = out \o msgs
         /\ exit_code' = exit_code
    ELSE /\ pc' = "returned"
         /\ i' = n
         /\ out' = out \o msgs \o <<"Success. All fee recipients synchronized.">>
         /\ exit_code' = 0

\* continue with entry n of the update loop, or leave the loop and return 0
FeeLoopTo(n, msgs) ==
    IF n <= Len(args_file)
    THEN /\ pc' = "read"
         /\ i' = n
         /\ out' = out \o msgs
         /\ exit_code' = exit_code
    ELSE /\ pc' = "returned"
         /\ i' = n
         /\ out' = out \o msgs \o <<"Success. All fee recipients synchronized.">>
         /\ exit_code' = 0

\* lines 29-39: fetch the managed set, print it, validate every entry
FeeListKeystores ==
    /\ command = "set-fee-recipients"
    /\ pc = "list"
    /\ \E ok \in BOOLEAN :
        /\ log' = Append(log, request(KeystoresResource, <<>>, ok, <<>>, 0))
        /\ IF ~ok
           THEN /\ pc' = "raised"
                /\ UNCHANGED << managed_keystores, i, out, exit_code >>
           ELSE /\ managed_keystores' = ManagedKeystores(serverKeys)
                /\ IF FirstUnmanaged(fee_recipient_data, managed_keystores') /= 0
                   THEN /\ pc' = "returned"
                        /\ exit_code' = 1
                        /\ out' = out \o <<"The node manages the following validators:",
                                           "ERROR: Validator is not managed by the connected node.">>
                        /\ i' = i
                   ELSE FeeLoopTo(1, <<"The node manages the following validators:">>)
    /\ UNCHANGED << command, args_file, args_keystores, serverKeys, serverFee, serverFee0,
                    old_ethaddress, run >>

\* read whose failure is swallowed: the entry is skipped and the loop goes on
FeeRead_SkipOnError ==
    /\ command = "set-fee-recipients"
    /\ pc = "read"
    /\ LET d == fee_recipient_data[i]
           pubkey == d.validating_pubkey
           new_ethaddress == d.ethaddress
       IN \E ok \in BOOLEAN :
            /\ log' = Append(log, request(FeeRecipientResource(pubkey), <<>>, ok, IF ok THEN serverFee[pubkey] ELSE <<>>, i))
            /\ IF ~ok
               THEN /\ old_ethaddress' = old_ethaddress
                    /\ FeeLoopTo(i + 1, <<>>)
               ELSE /\ old_ethaddress' = OldEthaddress(serverFee[pubkey])
                    /\ IF InSync(old_ethaddress', new_ethaddress)
                       THEN FeeLoopTo(i + 1, <<"Configuring", "Fee recipient already in sync">>)
                       ELSE /\ pc' = "write"
                            /\ out' = Append(out, "Configuring")
                            /\ UNCHANGED << i, exit_code >>
    /\ UNCHANGED << command, args_file, args_keystores, serverKeys, serverFee, serverFee0,
                    managed_keystores, run >>

\* lines 43-51: read the current fee recipient of entry i and compare
FeeRead ==
    /\ command = "set-fee-recipients"
    /\ pc = "read"
    /\ LET d == fee_recipient_data[i]
           pubkey == d.validating_pubkey
           new_ethaddress == d.ethaddress
       IN \E ok \in BOOLEAN :
            /\ log' = Append(log, request(FeeRecipientResource(pubkey), <<>>, ok, IF ok THEN serverFee[pubkey] ELSE <<>>, i))
            /\ IF ~ok
               THEN /\ pc' = "raised"
                    /\ UNCHANGED << old_ethaddress, i, out, exit_code >>
               ELSE /\ old_ethaddress' = OldEthaddress(serverFee[pubkey])
                    /\ IF InSync(old_ethaddress', new_ethaddress)
                       THEN FeeLoopTo(i + 1, <<"Configuring", "Fee recipient already in sync">>)
                       ELSE /\ pc' = "write"
                            /\ out' = Append(out, "Configuring")
                            /\ UNCHANGED << i, exit_code >>
    /\ UNCHANGED << command, args_file, args_keystores, serverKeys, serverFee, serverFee0,
                    managed_keystores, run >>

\* lines 52-54: write the desired fee recipient of entry i
FeeWrite ==
    /\ command = "set-fee-recipients"
    /\ pc = "write"
    /\ LET d == fee_recipient_data[i]
           pubkey == d.validating_pubkey
           new_ethaddress == d.ethaddress
       IN \E ok \in BOOLEAN :
            /\ log' = Append(log, request(FeeRecipientResource(pubkey), req_data(d), ok, <<>>, i))
            /\ IF ~ok
               THEN /\ pc' = "raised"
                    /\ UNCHANGED << serverFee, i, out, exit_code >>
               ELSE /\ serverFee' = [serverFee EXCEPT ![pubkey] = new_ethaddress]
                    /\ FeeLoopTo(i + 1, <<"Fee recipient updated">>)
    /\ UNCHANGED << command, args_file, args_keystores, serverKeys, serverFee0,
                    managed_keystores, old_ethaddress, run >>

\* lines 126-133: the command is invoked again with the same file after exit code 0
FeeRerun ==
    /\ command = "set-fee-recipients"
    /\ pc = "returned"
    /\ exit_code = 0
    /\ run < MaxRuns
    /\ run' = run + 1
    /\ pc' = "list"
    /\ i' = 0
    /\ managed_keystores' = {}
    /\ old_ethaddress' = <<>>
    /\ log' = <<>>
    /\ out' = <<>>
    /\ serverFee0' = serverFee
    /\ UNCHANGED << command, args_file, args_keystores, serverKeys, serverFee, exit_code >>

\* ---- import_keystores -----------------------------------------------------
\* continue with file n of the import loop, or leave the loop and return 0
ImportLoopTo(n, msgs) ==
    IF n <= Len(args_keystores)
    THEN /\ pc' = "file"
         /\ i' = n
         /\ out' = out \o msgs
         /\ exit_code' = exit_code
    ELSE /\ pc' = "returned"
         /\ i' = n
         /\ out' = out \o msgs \o <<"Success. All keystores imported.">>
         /\ exit_code' = 0

\* lines 63-67: fetch the managed set and print it
ImportListKeystores ==
    /\ command = "import-keystores"
    /\ pc = "list"
    /\ \E ok \in BOOLEAN :
        /\ log' = Append(log, request(KeystoresResource, <<>>, ok, <<>>, 0))
        /\ IF ~ok
           THEN /\ pc' = "raised"
                /\ UNCHANGED << managed_keystores, i, out, exit_code >>
           ELSE /\ managed_keystores' = ManagedKeystores(serverKeys)
                /\ ImportLoopTo(1, <<"The node manages the following validators:">>)
    /\ UNCHANGED << command, args_file, args_keystores, serverKeys, serverFee, serverFee0,
                    old_ethaddress, run >>

\* skip that leaves the import loop instead of continuing with the next file
ImportSkip_Break ==
    /\ command = "import-keystores"
    /\ pc = "file"
    /\ LET pubkey == NormalizePubkey(args_keystores[i].pubkey)
       IN /\ pubkey \in managed_keystores
          /\ ImportLoopTo(Len(args_keystores) + 1, <<"Importing", "The node already manages this validating pubkey. Skipping this one.">>)
    /\ UNCHANGED << command, args_file, args_keystores, serverKeys, serverFee, serverFee0,
                    managed_keystores, old_ethaddress, log, run >>

\* lines 71-79: file i is already managed and skipped
ImportSkip ==
    /\ command = "import-keystores"
    /\ pc = "file"
    /\ LET pubkey == NormalizePubkey(args_keystores[i].pubkey)
       IN /\ pubkey \in managed_keystores
          /\ ImportLoopTo(i + 1, <<"Importing", "The node already manages this validating pubkey. Skipping this one.">>)
    /\ UNCHANGED << command, args_file, args_keystores, serverKeys, serverFee, serverFee0,
                    managed_keystores, old_ethaddress, log, run >>

\* lines 71-82: file i is not managed and posted to the server
ImportPost ==
    /\ command = "import-keystores"
    /\ pc = "file"
    /\ LET text == args_keystores[i].pubkey
           pubkey == NormalizePubkey(text)
       IN /\ pubkey \notin managed_keystores
          /\ \E ok \in BOOLEAN :
               /\ log' = Append(log, request(KeystoresResource, text, ok, <<>>, i))
               /\ IF ~ok
                  THEN /\ pc' = "raised"
                       /\ out' = Append(out, "Importing")
                       /\ UNCHANGED << i, exit_code >>
                  ELSE ImportLoopTo(i + 1, <<"Importing", "Keystore imported">>)
    /\ UNCHANGED << command, args_file, args_keystores, serverKeys, serverFee, serverFee0,
                    managed_keystores, old_ethaddress, run >>

\* lines 132-133: raise SystemExit(exit_code); an exception that leaves the
\* handler ends the interpreter with status 1
ProcessExitCode == IF pc = "raised" THEN 1 ELSE exit_code

\* ---- specifications -------------------------------------------------------
NextFee == FeeListKeystores \/ FeeRead \/ FeeWrite \/ FeeRerun
NextImport == ImportListKeystores \/ ImportSkip \/ ImportPost

SpecFee == InitFee /\ [][NextFee]_vars
SpecImport == InitImport /\ [][NextImport]_vars

Init == InitFee \/ InitImport
Next == NextFee \/ NextImport
Spec == Init /\ [][Next]_vars

\* ---- properties -----------------------------------------------------------
IsWrite(r) == r.method = "POST"
IsFeeRead(r) == r.method = "GET" /\ r.resource.path = FeeRecipientResource(<<>>).path
Writes == SelectSeq(log, IsWrite)

\* entry k of the fee-recipient file names a pubkey the server manages,
\* compared without regard to letter case
EntryManaged(k) == \E s \in serverKeys : Lower(s) = Lower(args_file[k].validating_pubkey)

\* C1: if any entry of the fee-recipient file names a pubkey absent from the
\* managed set, the only request of the invocation is GET /eth/v1/keystores:
\* no fee-recipient read or write is issued for any entry, also not for the
\* entries before the offending one.
C1_AllOrNothing ==
    (command = "set-fee-recipients" /\ \E k \in 1..Len(args_file) : ~EntryManaged(k))
        => /\ \A n \in 1..Len(log) : log[n] = request(KeystoresResource, <<>>, log[n].ok, <<>>, 0)
           /\ Len(log) <= 1
           /\ serverFee = serverFee0

\* a two-entry file whose first entry is managed and whose second is not was rejected
C1_Witness ==
    /\ command = "set-fee-recipients"
    /\ pc = "returned" /\ exit_code = 1
    /\ Len(args_file) = 2
    /\ EntryManaged(1) /\ ~EntryManaged(2)
    /\ Len(log) = 1 /\ log[1].ok

\* C2 as stated: the second run with the same file after exit code 0 issues
\* no write request, for every input file.
C2_RerunNoWrites ==
    (command = "set-fee-recipients" /\ run >= 2) => Len(Writes) = 0

\* entries of the file that name the same pubkey ask for the same address
ConsistentFile ==
    \A j, k \in 1..Len(args_file) :
        Lower(args_file[j].validating_pubkey) = Lower(args_file[k].validating_pubkey)
            => Lower(args_file[j].ethaddress) = Lower(args_file[k].ethaddress)

\* C2 amended: the second run with the same file after exit code 0 issues no
\* write request when the entries that name the same pubkey all ask for the
\* same address.
C2_RerunNoWritesConsistent ==
    (command = "set-fee-recipients" /\ run >= 2 /\ ConsistentFile) => Len(Writes) = 0

\* the second run finished over a file listing one pubkey twice, after a
\* first run that wrote the address
C2_Witness ==
    /\ command = "set-fee-recipients"
    /\ run = 2 /\ pc = "returned" /\ exit_code = 0
    /\ Len(args_file) = 2
    /\ Lower(args_file[1].validating_pubkey) = Lower(args_file[2].validating_pubkey)
    /\ ConsistentFile
    /\ serverFee[Lower(args_file[1].validating_pubkey)] = <<"0","x","c">>
    /\ Len(log) = 3

\* file k of the command line holds a pubkey the server manages, compared
\* after the 0x prefix is added and without regard to letter case
KeystoreManagedAnyCase(k) ==
    \E s \in serverKeys : Lower(s) = Lower(NormalizePubkey(args_keystores[k].pubkey))

\* C3: pubkey comparisons against the managed set ignore letter case in both
\* workflows: set-fee-recipients rejects a file only if some entry is
\* unmanaged under a case-insensitive comparison, and import-keystores issues
\* no write request for a file whose pubkey is managed under a
\* case-insensitive comparison.
C3_CaseInsensitive ==
    /\ (command = "set-fee-recipients" /\ pc = "returned" /\ exit_code = 1)
            => \E k \in 1..Len(args_file) : ~EntryManaged(k)
    /\ command = "import-keystores"
            => \A n \in 1..Len(log) : IsWrite(log[n]) => ~KeystoreManagedAnyCase(log[n].idx)

\* file k of the command line holds a pubkey that, with its 0x prefix, is in
\* the managed set fetched from the server
KeystoreManaged(k) ==
    NormalizePubkey(args_keystores[k].pubkey) \in { Lower(s) : s \in serverKeys }

UnmanagedFiles == { k \in 1..Len(args_keystores) : ~KeystoreManaged(k) }

\* C4: when import-keystores ends without a failed request it returns 0 and
\* has issued exactly one write to /eth/v1/keystores for each file that is not
\* in the managed set fetched at the start and none for a managed file, N-M in
\* all, whatever the order of the files.
C4_IndependentPerFile ==
    (command = "import-keystores" /\ pc = "returned")
        => /\ exit_code = 0
           /\ Len(Writes) = Len(args_keystores) - Cardinality({ k \in 1..Len(args_keystores) : KeystoreManaged(k) })
           /\ \A k \in 1..Len(args_keystores) :
                Cardinality({ n \in 1..Len(log) : IsWrite(log[n]) /\ log[n].idx = k })
                    = IF KeystoreManaged(k) THEN 0 ELSE 1
           /\ \A n \in 1..Len(log) :
                IsWrite(log[n]) => log[n].resource = KeystoresResource /\ log[n].ok

\* three files, the first managed and the other two not, were all handled
C4_Witness ==
    /\ command = "import-keystores"
    /\ pc = "returned" /\ exit_code = 0
    /\ Len(args_keystores) = 3
    /\ KeystoreManaged(1) /\ ~KeystoreManaged(2) /\ ~KeystoreManaged(3)
    /\ Len(Writes) = 2

\* file k has been handled by the import loop without a failed request
FileHandled(k) == pc = "returned" \/ (pc \in {"file", "raised"} /\ k < i)

HasWriteFor(k) == \E n \in 1..Len(log) : IsWrite(log[n]) /\ log[n].idx = k

\* C5: a keystore pubkey without the 0x prefix is compared with the managed
\* set as 0x followed by the pubkey, and a pubkey that starts with 0x is
\* compared as it is: a handled file is skipped, with no write request,
\* exactly when that value is in the managed set.
C5_PrefixNormalized ==
    command = "import-keystores" =>
        \A k \in 1..Len(args_keystores) :
            LET pubkey == args_keystores[k].pubkey
                compared == IF Len(pubkey) >= 2 /\ SubSeq(pubkey, 1, 2) = <<"0","x">>
                            THEN pubkey
                            ELSE <<"0","x">> \o pubkey
            IN FileHandled(k) =>
                    (HasWriteFor(k) <=> compared \notin { Lower(s) : s \in serverKeys })

\* a file holding pubkey a was handled against a managed set holding 0xa and skipped
C5_Witness ==
    /\ command = "import-keystores"
    /\ pc = "returned" /\ exit_code = 0
    /\ args_keystores[1].pubkey = <<"a">>
    /\ <<"0","x","a">> \in serverKeys
    /\ ~HasWriteFor(1)
    /\ Len(out) >= 3
    /\ out[3] = "The node already manages this validating pubkey. Skipping this one."

\* the address read by log entry n differs from the address its entry asks for
ReadDiffers(n) == Lower(log[n].resp) /= Lower(args_file[log[n].idx].ethaddress)

\* C6: after validation, a write is issued for an entry exactly when the fee
\* recipient just read for it differs, ignoring case, from the desired
\* address; the write follows that read, goes to the feerecipient resource of
\* the same pubkey with the lower-cased desired address as body; at most one
\* write is issued per entry.
C6_WriteIffDiffers ==
    command = "set-fee-recipients" =>
        /\ \A n \in 1..Len(log) :
              (IsFeeRead(log[n]) /\ log[n].ok) =>
                 IF ReadDiffers(n)
                 THEN \/ n = Len(log) /\ pc = "write" /\ i = log[n].idx
                      \/ /\ n < Len(log)
                         /\ IsWrite(log[n+1])
                         /\ log[n+1].idx = log[n].idx
                         /\ log[n+1].resource = log[n].resource
                         /\ log[n+1].resource.pubkey = Lower(args_file[log[n].idx].validating_pubkey)
                         /\ log[n+1].data = Lower(args_file[log[n].idx].ethaddress)
                 ELSE /\ pc /= "write" \/ n < Len(log)
                      /\ n < Len(log) => ~IsWrite(log[n+1])
        /\ \A n \in 1..Len(log) :
              IsWrite(log[n]) => n > 1 /\ IsFeeRead(log[n-1]) /\ log[n-1].ok /\ log[n-1].idx = log[n].idx
        /\ \A k \in 1..Len(args_file) :
              Cardinality({ n \in 1..Len(log) : IsWrite(log[n]) /\ log[n].idx = k }) <= 1

\* a file asking 0xC for a validator whose recipient is 0xC was found in sync,
\* and its second entry, asking for another address than the server's, was written
C6_Witness ==
    /\ command = "set-fee-recipients"
    /\ pc = "returned" /\ exit_code = 0
    /\ Len(args_file) = 2
    /\ Len(log) = 4
    /\ log[2].resp = <<"0","x","C">> /\ args_file[1].ethaddress = <<"0","x","c">>
    /\ IsWrite(log[4]) /\ log[4].idx = 2

SuccessSummaries == { "Success. All fee recipients synchronized.", "Success. All keystores imported." }

\* the fee recipient the server must hold for validator v after the requests
\* of the log: the body of the last successful write to v, or what it held
\* when the invocation started
RECURSIVE FeeAfter(_, _)
FeeAfter(v, n) ==
    IF n = 0 THEN serverFee0[v]
    ELSE IF IsWrite(log[n]) /\ log[n].ok /\ log[n].resource.pubkey = v
         THEN log[n].data
         ELSE FeeAfter(v, n - 1)

\* C7: in both workflows the first failed request is the last request of the
\* invocation: the handler raises, no request follows, no entry or file after
\* the current one is read or written, no success summary is printed, the
\* process exit code is not 0, and the writes completed before the failure
\* stay on the server.
C7_FirstFailureAborts ==
    /\ \A n \in 1..Len(log) : ~log[n].ok => (n = Len(log) /\ pc = "raised")
    /\ pc = "raised" =>
          /\ Len(log) >= 1 /\ ~log[Len(log)].ok
          /\ ProcessExitCode /= 0
          /\ \A m \in 1..Len(out) : out[m] \notin SuccessSummaries
          /\ \A n \in 1..Len(log) : log[n].idx <= i
          /\ command = "set-fee-recipients" =>
                \A v \in ValidatorIds : serverFee[v] = FeeAfter(v, Len(log))
    /\ (\E m \in 1..Len(out) : out[m] \in SuccessSummaries) => (pc = "returned" /\ exit_code = 0)

\* the read of the second entry failed after the write of the first entry completed
C7_Witness ==
    /\ command = "set-fee-recipients"
    /\ pc = "raised"
    /\ Len(args_file) = 2
    /\ Len(log) = 4
    /\ IsWrite(log[3]) /\ log[3].ok
    /\ IsFeeRead(log[4]) /\ ~log[4].ok
    /\ serverFee /= serverFee0

ListOk == Len(log) >= 1 /\ log[1].ok

\* entry k has been read and, where the read address differs, written, without failure
EntryProcessed(k) ==
    \E n \in 1..Len(log) :
        /\ IsFeeRead(log[n]) /\ log[n].ok /\ log[n].idx = k
        /\ ReadDiffers(n) =>
              n < Len(log) /\ IsWrite(log[n+1]) /\ log[n+1].ok /\ log[n+1].idx = k

\* C8: set_fee_recipients returns 1 exactly when the validation after a
\* successful fetch of the managed set finds an unmanaged entry, and returns
\* 0 exactly when validation passed and every entry was read, and written
\* where needed, without a failed request.
C8_ExitCodes ==
    command = "set-fee-recipients" =>
        /\ (pc = "returned" /\ exit_code = 1)
              <=> (ListOk /\ \E k \in 1..Len(args_file) : ~EntryManaged(k))
        /\ (pc = "returned" /\ exit_code = 0)
              <=> /\ ListOk
                  /\ \A k \in 1..Len(args_file) : EntryManaged(k)
                  /\ \A k \in 1..Len(args_file) : EntryProcessed(k)
                  /\ \A n \in 1..Len(log) : log[n].ok
        /\ pc = "returned" => exit_code \in {0, 1}

\* a two-entry file was processed with a write for its last entry and 0 returned
C8_Witness ==
    /\ command = "set-fee-recipients"
    /\ pc = "returned" /\ exit_code = 0
    /\ Len(args_file) = 2
    /\ IsWrite(log[Len(log)]) /\ log[Len(log)].idx = 2
    /\ run = 1

\* C9: the requests of set-fee-recipients come in a fixed order: GET
\* /eth/v1/keystores first and once, then entry by entry in file order the
\* read of the entry's fee recipient and, if any, its write; the requests of
\* an entry are completed before the next entry's read, and every write
\* directly follows the read of the same pubkey.
C9_RequestOrder ==
    command = "set-fee-recipients" =>
        /\ Len(log) >= 1 => log[1] = request(KeystoresResource, <<>>, log[1].ok, <<>>, 0)
        /\ \A n \in 2..Len(log) :
              /\ log[n-1].ok
              /\ log[n].idx \in 1..Len(args_file)
              /\ log[n].resource = FeeRecipientResource(Lower(args_file[log[n].idx].validating_pubkey))
              /\ IsFeeRead(log[n]) \/ IsWrite(log[n])
              /\ IsFeeRead(log[n]) => log[n].idx = log[n-1].idx + 1
              /\ IsWrite(log[n]) =>
                    /\ IsFeeRead(log[n-1])
                    /\ log[n-1].idx = log[n].idx
                    /\ log[n-1].resource = log[n].resource

\* two entries for different pubkeys were each read and then written, in file order
C9_Witness ==
    /\ command = "set-fee-recipients"
    /\ pc = "returned" /\ exit_code = 0
    /\ Len(args_file) = 2
    /\ Lower(args_file[1].validating_pubkey) /= Lower(args_file[2].validating_pubkey)
    /\ Len(log) = 5
    /\ IsWrite(log[3]) /\ IsWrite(log[5])

\* the last entry of the file that names the same pubkey as entry k
LastEntryFor(k) ==
    CHOOSE j \in 1..Len(args_file) :
        /\ Lower(args_file[j].validating_pubkey) = Lower(args_file[k].validating_pubkey)
        /\ \A l \in (j+1)..Len(args_file) :
              Lower(args_file[l].validating_pubkey) /= Lower(args_file[k].validating_pubkey)

\* C10: when set-fee-recipients returns 0, the server's fee recipient of every
\* pubkey of the file equals, ignoring case, the address of the last entry for
\* that pubkey; every pubkey written to is in the managed set; the fee
\* recipient of every validator not named in the file is what it was.
C10_FinalServerState ==
    (command = "set-fee-recipients" /\ pc = "returned" /\ exit_code = 0) =>
        /\ \A k \in 1..Len(args_file) :
              Lower(serverFee[Lower(args_file[k].validating_pubkey)])
                  = Lower(args_file[LastEntryFor(k)].ethaddress)
        /\ \A n \in 1..Len(log) :
              IsWrite(log[n]) => \E s \in serverKeys : Lower(s) = log[n].resource.pubkey
        /\ \A v \in ValidatorIds :
              (\A k \in 1..Len(args_file) : Lower(args_file[k].validating_pubkey) /= v)
                  => serverFee[v] = serverFee0[v]

\* a file naming one pubkey twice with different addresses was written twice
C10_Witness ==
    /\ command = "set-fee-recipients"
    /\ pc = "returned" /\ exit_code = 0
    /\ run = 1
    /\ Len(args_file) = 2
    /\ Lower(args_file[1].validating_pubkey) = Lower(args_file[2].validating_pubkey)
    /\ Lower(args_file[1].ethaddress) /= Lower(args_file[2].ethaddress)
    /\ Len(Writes) = 2
    /\ serverFee /= serverFee0

====
